---- MODULE Spec2Model ----
(***************************************************************************)
(* State-machine model of the packet signature ledger of JoelEager/packet: *)
(* the Packet model (packet/models.py) and the sign() endpoint and         *)
(* update_sig() helper (packet/routes/api.py).                             *)
(*                                                                         *)
(* Three specifications share the variables:                               *)
(*   Spec      sign() requests served one after the other;                 *)
(*   SpecConc  sign() requests served by two workers whose database        *)
(*             reads and commits interleave;                               *)
(*   SpecUpd   the helper update_sig() applied to a packet and flushed.    *)
(***************************************************************************)
EXTENDS Integers, FiniteSets

\* packet/models.py:15
REQUIRED_MISC_SIGNATURES == 10

\* Bounds of the model
NumMembers == 5      \* CSH accounts 1..NumMembers send requests
NumPrior == 8        \* misc rows that earlier requests left on the open packet
MaxTime == 3         \* the clock runs 0..MaxTime

Members == 1..NumMembers
Alumni == {100 + i : i \in 1..NumPrior}
AllMembers == Members \cup Alumni
Freshmen == {21, 22}
Signers == AllMembers \cup Freshmen      \* every account name a request can carry
PacketIds == {1, 2}
RequestIds == {0} \cup PacketIds      \* 0 is an id no packet has
Realms == {"csh", "intro"}
Procs == {1, 2}                       \* the request workers of SpecConc

\* Packet.start / Packet.end: packet 1 is open at time 2 only, packet 2 is an
\* old packet whose window holds no clock value any more.
start == [pk \in PacketIds |-> IF pk = 1 THEN 1 ELSE 0]
end == [pk \in PacketIds |-> IF pk = 1 THEN 3 ELSE 1]

\* The rows that packet creation pre-populates: member -> (signed, eboard) and
\* freshman -> signed.  Freshman 22 is off-floor: no row on any packet.
UpperRoster == [pk \in PacketIds |-> IF pk = 1 THEN {1, 2} ELSE {2, 3}]
FreshRoster == [pk \in PacketIds |-> IF pk = 1 THEN {21} ELSE {}]
EboardMembers == {1}

None == [id |-> 0]

UpperAdded == "Added upperclassman signature"
MiscAdded == "Added misc member signature"
FreshAdded == "Added freshman signature"
Added == {UpperAdded, MiscAdded, FreshAdded}
ServerError == "server_error"

VARIABLES
    now,                \* datetime.now()
    upper_signatures,   \* table signature_upper: packet -> member -> row
    fresh_signatures,   \* table signature_fresh: packet -> freshman -> row
    misc_signatures,    \* table signature_misc: packet -> member -> number of rows
    notified,           \* number of notify_slack calls so far
    granted,            \* packet -> signer -> number of "Added ..." responses of sign()
    lastCall,           \* Spec, SpecUpd: the last request served and its response
    pc, req, was_100, pending, committed   \* the workers of SpecConc

dbvars == <<upper_signatures, fresh_signatures, misc_signatures>>
procvars == <<pc, req, was_100, pending, committed>>
vars == <<now, upper_signatures, fresh_signatures, misc_signatures, notified,
          granted, lastCall, pc, req, was_100, pending, committed>>

\* len() of a list of rows kept as member -> number of rows
NumRows(rows) == Cardinality(UNION {{m} \X (1..rows[m]) : m \in DOMAIN rows})

Count(S) == Cardinality(S)

----------------------------------------------------------------------------
(* packet/models.py *)

SigCountsUncapped(eboard, upper, fresh, misc) ==
    [eboard |-> eboard, upper |-> upper, fresh |-> fresh, misc |-> misc,
     misc_capped |-> misc,
     member_total |-> eboard + upper + misc,
     total |-> eboard + upper + fresh + misc]

SigCounts(eboard, upper, fresh, misc) ==
    LET misc_capped == IF misc <= REQUIRED_MISC_SIGNATURES THEN misc
                       ELSE REQUIRED_MISC_SIGNATURES
    IN [eboard |-> eboard, upper |-> upper, fresh |-> fresh, misc |-> misc,
        misc_capped |-> misc_capped,
        member_total |-> eboard + upper + misc_capped,
        total |-> eboard + upper + fresh + misc_capped]

\* Packet.by_id: the packet with its three eagerly loaded signature lists
by_id(packet_id) ==
    IF packet_id \in PacketIds
    THEN [id |-> packet_id,
          start |-> start[packet_id],
          end |-> end[packet_id],
          upper_signatures |-> upper_signatures[packet_id],
          fresh_signatures |-> fresh_signatures[packet_id],
          misc_signatures |-> misc_signatures[packet_id]]
    ELSE None

is_open_inclusive(packet, t) == packet.start <= t /\ t <= packet.end

is_open(packet, t) == packet.start < t /\ t < packet.end

signatures_required(packet) ==
    LET u == packet.upper_signatures
        eboard == Count({m \in DOMAIN u : u[m].eboard})
        upper == Count(DOMAIN u) - eboard
        fresh == Count(DOMAIN packet.fresh_signatures)
    IN SigCounts(eboard, upper, fresh, REQUIRED_MISC_SIGNATURES)

signatures_received(packet) ==
    LET u == packet.upper_signatures
        f == packet.fresh_signatures
        eboard == Count({m \in DOMAIN u : u[m].eboard /\ u[m].signed})
        upper == Count({m \in DOMAIN u : ~u[m].eboard /\ u[m].signed})
        fresh == Count({m \in DOMAIN f : f[m].signed})
    IN SigCounts(eboard, upper, fresh,
                 NumRows(packet.misc_signatures))

\* did_sign answering for an UpperSignature or FreshSignature row that exists,
\* signed or not
did_sign_row_exists(packet, username, is_csh) ==
    IF is_csh
    THEN \/ username \in DOMAIN packet.upper_signatures
         \/ packet.misc_signatures[username] > 0
    ELSE username \in DOMAIN packet.fresh_signatures

\* Packet.did_sign: the first row of chain(upper_signatures, misc_signatures)
\* with the member's name decides, or the freshman's FreshSignature row
did_sign(packet, username, is_csh) ==
    IF is_csh
    THEN IF username \in DOMAIN packet.upper_signatures
         THEN packet.upper_signatures[username].signed
         ELSE packet.misc_signatures[username] > 0
    ELSE IF username \in DOMAIN packet.fresh_signatures
         THEN packet.fresh_signatures[username].signed
         ELSE FALSE

is_100(packet) ==
    signatures_required(packet).total = signatures_received(packet).total

----------------------------------------------------------------------------
(* packet/routes/api.py: sign() *)

\* The read-and-decide part of sign() without the look-up of an existing misc row
sign_plan_no_misc_check(packet, uid, realm, t) ==
    IF packet = None THEN "bad_id"
    ELSE IF ~is_open(packet, t) THEN "packet_closed"
    ELSE IF realm = "csh"
         THEN IF uid \in DOMAIN packet.upper_signatures
              THEN IF ~packet.upper_signatures[uid].signed THEN "upper"
                   ELSE "already_signed"
              ELSE "misc"
         ELSE IF uid \in DOMAIN packet.fresh_signatures
              THEN IF ~packet.fresh_signatures[uid].signed THEN "fresh"
                   ELSE "already_signed"
              ELSE "onfloor_freshman"

\* ... and with an off-floor freshman taken for a misc signer
sign_plan_fresh_as_misc(packet, uid, realm, t) ==
    IF packet = None THEN "bad_id"
    ELSE IF ~is_open(packet, t) THEN "packet_closed"
    ELSE IF realm = "csh" \/ uid \notin DOMAIN packet.fresh_signatures
         THEN IF uid \in DOMAIN packet.upper_signatures
              THEN IF ~packet.upper_signatures[uid].signed THEN "upper"
                   ELSE "already_signed"
              ELSE IF packet.misc_signatures[uid] > 0 THEN "already_signed"
                   ELSE "misc"
         ELSE IF ~packet.fresh_signatures[uid].signed THEN "fresh"
              ELSE "already_signed"

\* sign(), lines 97-149 up to the commit: the error it returns, or the row
\* change it stages in the session ("upper", "misc", "fresh")
sign_plan(packet, uid, realm, t) ==
    IF packet = None THEN "bad_id"
    ELSE IF ~is_open(packet, t) THEN "packet_closed"
    ELSE IF realm = "csh"
         THEN IF uid \in DOMAIN packet.upper_signatures
              THEN IF ~packet.upper_signatures[uid].signed THEN "upper"
                   ELSE "already_signed"
              ELSE IF packet.misc_signatures[uid] > 0 THEN "already_signed"
                   ELSE "misc"
         ELSE IF uid \in DOMAIN packet.fresh_signatures
              THEN IF ~packet.fresh_signatures[uid].signed THEN "fresh"
                   ELSE "already_signed"
              ELSE "onfloor_freshman"

Staged == {"upper", "misc", "fresh"}

\* The response of a request whose staged change was committed
message(plan) ==
    CASE plan = "upper" -> UpperAdded
      [] plan = "misc" -> MiscAdded
      [] plan = "fresh" -> FreshAdded
      [] OTHER -> plan

\* The primary key (packet_id, member) of signature_misc, models.py:229-230:
\* the INSERT of a second row for the pair fails.
insert_allowed_always(pid, uid, plan) == TRUE

insert_allowed(pid, uid, plan) ==
    plan = "misc" => misc_signatures[pid][uid] = 0

\* db.session.commit() of the staged change: one UPDATE or one INSERT
flush_all_rows(pid, uid, plan) ==
    /\ upper_signatures' =
         IF plan = "upper"
         THEN [upper_signatures EXCEPT
                 ![pid] = [m \in DOMAIN @ |-> [@[m] EXCEPT !.signed = TRUE]]]
         ELSE upper_signatures
    /\ fresh_signatures' =
         IF plan = "fresh"
         THEN [fresh_signatures EXCEPT
                 ![pid] = [m \in DOMAIN @ |-> [@[m] EXCEPT !.signed = TRUE]]]
         ELSE fresh_signatures
    /\ misc_signatures' =
         IF plan = "misc"
         THEN [misc_signatures EXCEPT ![pid][uid] = @ + 1]
         ELSE misc_signatures

flush(pid, uid, plan) ==
    /\ upper_signatures' =
         IF plan = "upper"
         THEN [upper_signatures EXCEPT ![pid][uid].signed = TRUE]
         ELSE upper_signatures
    /\ fresh_signatures' =
         IF plan = "fresh"
         THEN [fresh_signatures EXCEPT ![pid][uid].signed = TRUE]
         ELSE fresh_signatures
    /\ misc_signatures' =
         IF plan = "misc"
         THEN [misc_signatures EXCEPT ![pid][uid] = @ + 1]
         ELSE misc_signatures

\* commit_sig(), line 93: the condition under which notify_slack is called
should_notify_no_was(was, is) == is

should_notify(was, is) == ~was /\ is

Call(pid, uid, realm, response) ==
    [pid |-> pid, uid |-> uid, realm |-> realm, resp |-> response]

NoCall == Call(0, 0, "none", "none")

Requests ==
    {r \in [pid : RequestIds, uid : Members \cup Freshmen, realm : Realms] :
        (r.realm = "csh") = (r.uid \in Members)}

----------------------------------------------------------------------------
\* Packet 1 has been created with its roster unsigned and has NumPrior misc
\* signatures of alumni already; packet 2 is closed, with member 2's upper
\* signature and member 1's misc signature on it.
Init ==
    /\ now = 0
    /\ upper_signatures =
         [pk \in PacketIds |->
            [m \in UpperRoster[pk] |->
               [signed |-> (pk = 2 /\ m = 2), eboard |-> m \in EboardMembers]]]
    /\ fresh_signatures =
         [pk \in PacketIds |-> [f \in FreshRoster[pk] |-> [signed |-> FALSE]]]
    /\ misc_signatures =
         [pk \in PacketIds |->
            [m \in Signers |->
               IF (pk = 1 /\ m \in Alumni) \/ (pk = 2 /\ m = 1) THEN 1 ELSE 0]]
    /\ notified = 0
    /\ granted = [pk \in PacketIds |-> [u \in Members \cup Freshmen |-> 0]]
    /\ lastCall = NoCall
    /\ pc = [p \in Procs |-> "idle"]
    /\ req = [p \in Procs |-> [pid |-> 0, uid |-> 0, realm |-> "none"]]
    /\ was_100 = [p \in Procs |-> FALSE]
    /\ pending = [p \in Procs |-> "none"]
    /\ committed = [p \in Procs |-> FALSE]

\* Time passes
Tick ==
    /\ now < MaxTime
    /\ now' = now + 1
    /\ UNCHANGED <<dbvars, notified, granted, lastCall, procvars>>

\* One whole sign() request, served with no other request in between
Sign(pid, uid, realm) ==
    LET packet == by_id(pid)
        plan == sign_plan(packet, uid, realm, now)
    IN /\ IF plan \in Staged
          THEN IF insert_allowed(pid, uid, plan)
               THEN /\ flush(pid, uid, plan)
                    /\ notified' =
                         IF should_notify(is_100(packet), is_100(by_id(pid))')
                         THEN notified + 1 ELSE notified
                    /\ granted' = [granted EXCEPT ![pid][uid] = @ + 1]
                    /\ lastCall' = Call(pid, uid, realm, message(plan))
               ELSE /\ UNCHANGED <<dbvars, notified, granted>>
                    /\ lastCall' = Call(pid, uid, realm, ServerError)
          ELSE /\ UNCHANGED <<dbvars, notified, granted>>
               /\ lastCall' = Call(pid, uid, realm, plan)
       /\ UNCHANGED <<now, procvars>>

Next ==
    \/ Tick
    \/ \E r \in Requests : Sign(r.pid, r.uid, r.realm)

Spec == Init /\ [][Next]_vars

----------------------------------------------------------------------------
(* sign() served by concurrent workers.  Each worker has its own session:   *)
(* Read is lines 97-129 up to the commit (the query, the clock, was_100 and *)
(* the row change staged in the session), Commit is db.session.commit() of  *)
(* line 92, Check is lines 93-94, which reload the packet that the commit   *)
(* expired, and the return of the response.                                 *)
(* The database is the one the models declare and nothing else: an UPDATE   *)
(* of a row another session has updated since the read succeeds (no row     *)
(* version, no SELECT ... FOR UPDATE, default isolation), an INSERT of a    *)
(* second signature_misc row with the same (packet_id, member) fails.       *)
(* Workers only count their "Added ..." responses in granted; lastCall is   *)
(* the response log of the one-at-a-time specifications.                    *)

\* Where a worker goes after db.session.commit(): an exception raised by the
\* commit leaves commit_sig() and sign()
after_commit_swallowed(ok) == "check"

after_commit(ok) == IF ok THEN "check" ELSE "done"

Idle == [pid |-> 0, uid |-> 0, realm |-> "none"]

\* The worker has returned its response: its locals are gone
Return(p) ==
    /\ pc' = [pc EXCEPT ![p] = "idle"]
    /\ req' = [req EXCEPT ![p] = Idle]
    /\ was_100' = [was_100 EXCEPT ![p] = FALSE]
    /\ pending' = [pending EXCEPT ![p] = "none"]
    /\ committed' = [committed EXCEPT ![p] = FALSE]

Read(p, r) ==
    LET packet == by_id(r.pid)
        plan == sign_plan(packet, r.uid, r.realm, now)
    IN /\ pc[p] = "idle"
       /\ IF plan \in Staged
          THEN /\ pc' = [pc EXCEPT ![p] = "commit"]
               /\ req' = [req EXCEPT ![p] = r]
               /\ pending' = [pending EXCEPT ![p] = plan]
               /\ was_100' = [was_100 EXCEPT ![p] = is_100(packet)]
               /\ UNCHANGED <<committed, lastCall>>
          ELSE /\ UNCHANGED <<procvars, lastCall>>
       /\ UNCHANGED <<now, dbvars, notified, granted>>

Commit(p) ==
    LET ok == insert_allowed(req[p].pid, req[p].uid, pending[p])
    IN /\ pc[p] = "commit"
       /\ IF ok
          THEN flush(req[p].pid, req[p].uid, pending[p])
          ELSE UNCHANGED dbvars
       /\ IF after_commit(ok) = "check"
          THEN /\ pc' = [pc EXCEPT ![p] = "check"]
               /\ committed' = [committed EXCEPT ![p] = ok]
               /\ UNCHANGED <<req, was_100, pending, lastCall>>
          ELSE /\ Return(p)
               /\ UNCHANGED lastCall
       /\ UNCHANGED <<now, notified, granted>>

Check(p) ==
    /\ pc[p] = "check"
    /\ notified' =
         IF should_notify(was_100[p], is_100(by_id(req[p].pid)))
         THEN notified + 1 ELSE notified
    /\ granted' = [granted EXCEPT ![req[p].pid][req[p].uid] = @ + 1]
    /\ Return(p)
    /\ UNCHANGED <<now, dbvars, lastCall>>

NextConc ==
    \/ Tick
    \/ \E p \in Procs : \E r \in Requests : Read(p, r)
    \/ \E p \in Procs : Commit(p)
    \/ \E p \in Procs : Check(p)

SpecConc == Init /\ [][NextConc]_vars

----------------------------------------------------------------------------
(* packet/routes/api.py: update_sig(), the helper of sign() *)

\* The row change update_sig() stages, or the error it returns
update_sig(packet, uid, realm) ==
    IF realm = "csh"
    THEN IF uid \in DOMAIN packet.upper_signatures
            /\ ~packet.upper_signatures[uid].signed
         THEN "upper"
         ELSE "misc"
    ELSE IF uid \in DOMAIN packet.fresh_signatures THEN "fresh"
         ELSE "onfloor_freshman"

\* update_sig() on a packet, and the flush of what it staged
UpdateSig(pid, uid, realm) ==
    LET plan == update_sig(by_id(pid), uid, realm)
    IN /\ pid \in PacketIds
       /\ IF plan \in Staged /\ insert_allowed(pid, uid, plan)
          THEN flush(pid, uid, plan)
          ELSE UNCHANGED dbvars
       /\ lastCall' = Call(pid, uid, realm, message(plan))
       /\ UNCHANGED <<now, notified, granted, procvars>>

NextUpd ==
    \/ Tick
    \/ \E r \in Requests : UpdateSig(r.pid, r.uid, r.realm)

SpecUpd == Init /\ [][NextUpd]_vars

----------------------------------------------------------------------------
(* Properties *)

\* A step of Spec or SpecUpd that serves a request (every step but Tick does)
CallStep == now' = now

\* start < now < end, written out
InWindow(pid) == start[pid] < now /\ now < end[pid]

Complete(pid) ==
    /\ \A m \in DOMAIN upper_signatures[pid] : upper_signatures[pid][m].signed
    /\ \A f \in DOMAIN fresh_signatures[pid] : fresh_signatures[pid][f].signed
    /\ NumRows(misc_signatures[pid]) >= REQUIRED_MISC_SIGNATURES

\* The rows of all packets that differ between the two states of a step
ChangedRows ==
    LET changed_upper ==
            {r \in {"upper"} \X PacketIds \X Members :
                /\ r[3] \in DOMAIN upper_signatures[r[2]]
                /\ upper_signatures'[r[2]][r[3]] # upper_signatures[r[2]][r[3]]}
        changed_fresh ==
            {r \in {"fresh"} \X PacketIds \X Freshmen :
                /\ r[3] \in DOMAIN fresh_signatures[r[2]]
                /\ fresh_signatures'[r[2]][r[3]] # fresh_signatures[r[2]][r[3]]}
        changed_misc ==
            {r \in {"misc"} \X PacketIds \X Signers :
                misc_signatures'[r[2]][r[3]] # misc_signatures[r[2]][r[3]]}
    IN (changed_upper \cup changed_fresh) \cup changed_misc

\* C1: on an open packet a member's sign request is answered "Added
\* upperclassman signature" when the member has an unsigned UpperSignature row
\* and "Added misc member signature" when the member has no UpperSignature and
\* no MiscSignature row; the same member's next request, with no request in
\* between, is answered already_signed and changes nothing; the packet never
\* holds two MiscSignature rows of that member.
C1_SignTwice ==
    [][(CallStep /\ lastCall'.realm = "csh" /\ lastCall'.pid \in PacketIds
          /\ InWindow(lastCall'.pid))
       => LET pk == lastCall'.pid
              m == lastCall'.uid
          IN /\ (m \in DOMAIN upper_signatures[pk]
                   /\ ~upper_signatures[pk][m].signed)
                => (lastCall'.resp = UpperAdded
                      /\ upper_signatures'[pk][m].signed)
             /\ (m \notin DOMAIN upper_signatures[pk]
                   /\ misc_signatures[pk][m] = 0)
                => (lastCall'.resp = MiscAdded
                      /\ misc_signatures'[pk][m] = 1)
             /\ (lastCall.pid = pk /\ lastCall.uid = m /\ lastCall.realm = "csh"
                   /\ lastCall.resp \in Added)
                => (lastCall'.resp = "already_signed" /\ UNCHANGED dbvars)
             /\ misc_signatures'[pk][m] <= 1]_vars

C1_Witness ==
    /\ lastCall = Call(1, 3, "csh", "already_signed")
    /\ misc_signatures[1][3] = 1
    /\ granted[1][3] = 1

\* C2: over requests served one after the other, notify_slack is called by
\* the request whose commit takes is_100 from false to true and by no other:
\* a packet that is complete stays complete, and every step raises the number
\* of notifications by the number of packets it completes.
C2_NotifyOnce ==
    [][/\ \A pk \in PacketIds : is_100(by_id(pk)) => is_100(by_id(pk))'
       /\ notified' = notified +
            Cardinality({pk \in PacketIds :
                           ~is_100(by_id(pk)) /\ is_100(by_id(pk))'})]_vars

C2_Witness ==
    /\ notified = 1
    /\ is_100(by_id(1))
    /\ NumRows(misc_signatures[1]) = REQUIRED_MISC_SIGNATURES + 1
    /\ lastCall = Call(1, 5, "csh", MiscAdded)

\* C3 (as claimed): of the sign requests of one signer on one packet, also
\* when their reads and commits interleave, at most one is answered "Added
\* ..." and at most one MiscSignature row is created.
C3_OneGrantPerSigner ==
    \A pk \in PacketIds : \A u \in Members \cup Freshmen :
        granted[pk][u] <= 1 /\ misc_signatures[pk][u] <= 1

\* C4 (as claimed): when requests of different signers interleave, the
\* completion of a packet is notified exactly once: never twice, and once
\* whenever the packet is complete and no request is in flight.
C4_OneNotification ==
    (\A pk \in PacketIds : \A u \in Members \cup Freshmen : granted[pk][u] <= 1)
    => /\ notified <= Cardinality({pk \in PacketIds : is_100(by_id(pk))})
       /\ (\A p \in Procs : pc[p] = "idle")
          => notified >= Cardinality({pk \in PacketIds : is_100(by_id(pk))})

\* C5: a sign request on a packet at a time now <= start or now >= end is
\* answered packet_closed whoever signs, changes no row and notifies nobody;
\* a request at start < now < end is never answered packet_closed.
C5_PacketClosed ==
    [][(CallStep /\ lastCall'.pid \in PacketIds)
       => LET pk == lastCall'.pid
          IN /\ (now <= start[pk] \/ now >= end[pk])
                => (lastCall'.resp = "packet_closed"
                      /\ UNCHANGED <<dbvars, notified, granted>>)
             /\ (start[pk] < now /\ now < end[pk])
                => lastCall'.resp # "packet_closed"]_vars

C5_Witness ==
    /\ now = end[1]
    /\ lastCall = Call(1, 1, "csh", "packet_closed")
    /\ ~upper_signatures[1][1].signed

\* C6: on an open packet the request of a freshman who has no FreshSignature
\* row on it is answered onfloor_freshman, in every reachable state, and
\* changes no row, no signed flag and no count.
C6_OffFloorFreshman ==
    [][(CallStep /\ lastCall'.realm = "intro" /\ lastCall'.pid \in PacketIds
          /\ InWindow(lastCall'.pid)
          /\ lastCall'.uid \notin DOMAIN fresh_signatures[lastCall'.pid])
       => (lastCall'.resp = "onfloor_freshman"
             /\ UNCHANGED <<dbvars, notified, granted>>)]_vars

C6_Witness ==
    /\ lastCall = Call(1, 22, "intro", "onfloor_freshman")
    /\ fresh_signatures[1][21].signed
    /\ NumRows(misc_signatures[1]) > NumPrior

\* C7: a sign request changes at most one signature row: answered "Added
\* ..." it sets one signed flag from false to true or inserts one
\* MiscSignature row, and every other row of every packet stays as it was;
\* rejected, it changes no row.
C7_OneRowPerCall ==
    [][CallStep
       => /\ Cardinality(ChangedRows) <= 1
          /\ lastCall'.resp \in Added
             => LET pk == lastCall'.pid
                    u == lastCall'.uid
                IN \/ /\ lastCall'.resp = UpperAdded
                      /\ ChangedRows = {<<"upper", pk, u>>}
                      /\ ~upper_signatures[pk][u].signed
                      /\ upper_signatures'[pk][u].signed
                   \/ /\ lastCall'.resp = FreshAdded
                      /\ ChangedRows = {<<"fresh", pk, u>>}
                      /\ ~fresh_signatures[pk][u].signed
                      /\ fresh_signatures'[pk][u].signed
                   \/ /\ lastCall'.resp = MiscAdded
                      /\ ChangedRows = {<<"misc", pk, u>>}
                      /\ misc_signatures'[pk][u] = misc_signatures[pk][u] + 1
          /\ lastCall'.resp \notin Added => ChangedRows = {}]_vars

C7_Witness ==
    /\ lastCall = Call(1, 1, "csh", UpperAdded)
    /\ upper_signatures[1][1].signed
    /\ ~upper_signatures[1][2].signed
    /\ fresh_signatures[1][21].signed
    /\ misc_signatures[1][3] = 1

\* The row a worker staged is in the database
RowWritten(p) ==
    LET pk == req[p].pid
        u == req[p].uid
    IN CASE pending[p] = "upper" -> upper_signatures[pk][u].signed
         [] pending[p] = "fresh" -> fresh_signatures[pk][u].signed
         [] pending[p] = "misc" -> misc_signatures[pk][u] >= 1
         [] OTHER -> FALSE

\* C8: notify_slack is called only by a request whose own commit has
\* succeeded, after that commit: never before the commit, never by a request
\* whose commit failed, never by a rejected request.
C8_NotifyAfterCommit ==
    [][notified' # notified
       => /\ notified' = notified + 1
          /\ \E p \in Procs :
                /\ pc[p] = "check" /\ pc'[p] = "idle"
                /\ committed[p]
                /\ RowWritten(p)]_vars

C8_Witness ==
    /\ notified = 1
    /\ \E p \in Procs : pc[p] = "idle" /\ pc[3 - p] = "commit"
                        /\ pending[3 - p] = "misc"
                        /\ misc_signatures[1][req[3 - p].uid] = 1

C10_UpdateSigRepeat ==
    [][/\ (CallStep /\ lastCall'.realm = "csh"
             /\ lastCall'.uid \in DOMAIN upper_signatures[lastCall'.pid]
             /\ upper_signatures[lastCall'.pid][lastCall'.uid].signed)
          => (UNCHANGED dbvars /\ lastCall'.resp \notin Added)
       /\ \A pk \in PacketIds : \A m \in DOMAIN upper_signatures[pk] :
             misc_signatures'[pk][m] = 0]_vars

\* C11: on an open packet did_sign(signer, is_csh) is true exactly when the
\* signer's next sign request is answered already_signed: a request is
\* answered already_signed exactly when did_sign held before it, did_sign
\* holds right after a request answered "Added ...", and did_sign, once true,
\* stays true.
C11_DidSignAgrees ==
    [][\A r \in Requests :
          r.pid \in PacketIds
          => LET is_csh == r.realm = "csh"
                 served == /\ CallStep
                           /\ lastCall'.pid = r.pid
                           /\ lastCall'.uid = r.uid
                           /\ lastCall'.realm = r.realm
             IN /\ InWindow(r.pid)
                   => (did_sign(by_id(r.pid), r.uid, is_csh)
                         <=> sign_plan(by_id(r.pid), r.uid, r.realm, now)
                               = "already_signed")
                /\ (served /\ InWindow(r.pid))
                   => /\ (lastCall'.resp = "already_signed")
                           <=> did_sign(by_id(r.pid), r.uid, is_csh)
                      /\ lastCall'.resp \in Added
                           => did_sign(by_id(r.pid), r.uid, is_csh)'
                /\ did_sign(by_id(r.pid), r.uid, is_csh)
                   => did_sign(by_id(r.pid), r.uid, is_csh)']_vars

C11_Witness ==
    /\ lastCall = Call(1, 4, "csh", MiscAdded)
    /\ did_sign(by_id(1), 4, TRUE)
    /\ did_sign(by_id(1), 21, FALSE)
    /\ ~did_sign(by_id(1), 1, TRUE)
    /\ ~did_sign(by_id(1), 3, TRUE)
    /\ ~did_sign(by_id(1), 22, FALSE)

====
